---- MODULE Spec2Model ----
(***************************************************************************)
(* State-machine model of the DataPipelineTab React component              *)
(* (src/src/components/DataPipelineTab.tsx): file upload and naive CSV     *)
(* parsing, cleanData, executeQuery and the handlers that call them.       *)
(*                                                                         *)
(* JavaScript values are modelled as follows.                              *)
(*   - A string is a TLA+ string; characters are read with SubSeq.         *)
(*   - A cell value is a record [t, s, n]: t = "str" (s is the text),      *)
(*     t = "num" (n is the number in tenths: 42.5 is 425), t = "nan",      *)
(*     t = "undef" (undefined: the property is absent).                    *)
(*   - An object (a row, foundColumns) is a sequence of [k, v] pairs in    *)
(*     property insertion order, which is the order Object.keys and        *)
(*     Object.entries walk string keys in.                                 *)
(*   - An array is a sequence.                                             *)
(* Numbers keep one fractional digit: parseFloat drops further digits.     *)
(* The cell texts of FileCatalog have at most one, so every parse of the   *)
(* model is exact. Exponents, hexadecimal and "Infinity" are not parsed;   *)
(* no cell of the catalog uses them.                                       *)
(***************************************************************************)
EXTENDS Integers, Sequences, FiniteSets, TLC

VARIABLES
    uploadedFile,    \* useState<File | null>: the selected file's name, or NoFile
    readers,         \* FileReader loads in flight: the files being read
    rawData,         \* useState<any[]>: parsed rows
    cleanedData,     \* useState<any[]>: cleaned rows
    cleaningLogs,    \* useState<CleaningLog[]>
    beforeStats,     \* useState<DataStats | null>
    afterStats,      \* useState<DataStats | null>
    isProcessing,    \* useState(false)
    preserveRows,    \* useState(false)
    currentQuery,    \* useState('')
    queryResult,     \* useState<QueryResult | null>
    isQuerying,      \* useState(false)
    activeStep,      \* useState<'upload' | 'clean' | 'query'>
    isGeneratingSQL, \* useState(false)
    nlpPending       \* generateSQLFromNLP calls waiting on their 1500 ms timer

vars == <<uploadedFile, readers, rawData, cleanedData, cleaningLogs, beforeStats,
          afterStats, isProcessing, preserveRows, currentQuery, queryResult,
          isQuerying, activeStep, isGeneratingSQL, nlpPending>>

(***************************************************************************)
(* Strings                                                                 *)
(***************************************************************************)

Char(s, i) == SubSeq(s, i, i)

UpperLetters == "ABCDEFGHIJKLMNOPQRSTUVWXYZ"

LowerLetters == "abcdefghijklmnopqrstuvwxyz"

Digits == "0123456789"

\* The 1-based position of character c in string s, 0 when it is not there.
IndexOf(s, c) ==
    IF \E i \in 1..Len(s) : Char(s, i) = c
    THEN CHOOSE i \in 1..Len(s) : Char(s, i) = c /\ \A j \in 1..(i - 1) : Char(s, j) # c
    ELSE 0

UpperSet == {Char(UpperLetters, i) : i \in 1..Len(UpperLetters)}

LowerSet == {Char(LowerLetters, i) : i \in 1..Len(LowerLetters)}

DigitSet == {Char(Digits, i) : i \in 1..Len(Digits)}

ToLowerMap == [c \in UpperSet |-> Char(LowerLetters, IndexOf(UpperLetters, c))]

ToUpperMap == [c \in LowerSet |-> Char(UpperLetters, IndexOf(LowerLetters, c))]

LowerChar(c) == IF c \in UpperSet THEN ToLowerMap[c] ELSE c

UpperChar(c) == IF c \in LowerSet THEN ToUpperMap[c] ELSE c

IsDigit(c) == c \in DigitSet

\* \w of a JavaScript regular expression
IsWordChar(c) == c \in UpperSet \/ c \in LowerSet \/ IsDigit(c) \/ c = "_"

\* One character of a converted string: s[i] under toLowerCase ("lower"),
\* toUpperCase ("upper"), replace(/"/g, '') ("unquote"), or
\* replace(/\b\w/g, l => l.toUpperCase()) ("title": the first character of
\* every run of word characters is uppercased)
ConvertChar(kind, s, i) ==
    LET c == Char(s, i)
    IN CASE kind = "lower" -> LowerChar(c)
         [] kind = "upper" -> UpperChar(c)
         [] kind = "unquote" -> IF c = "\"" THEN "" ELSE c
         [] kind = "title" ->
                IF IsWordChar(c) /\ (i = 1 \/ ~IsWordChar(Char(s, i - 1)))
                THEN UpperChar(c) ELSE c

\* characters from..to of s, converted; built by halves to keep the
\* recursion shallow
RECURSIVE ConvertRange(_, _, _, _)
ConvertRange(kind, s, from, to) ==
    IF from > to THEN ""
    ELSE IF from = to THEN ConvertChar(kind, s, from)
    ELSE LET mid == (from + to) \div 2
         IN ConvertRange(kind, s, from, mid) \o ConvertRange(kind, s, mid + 1, to)

\* String.prototype.toLowerCase (ASCII letters)
ToLowerCase(s) == ConvertRange("lower", s, 1, Len(s))

\* String.prototype.toUpperCase (ASCII letters)
ToUpperCase(s) == ConvertRange("upper", s, 1, Len(s))

IsSpace(c) == c \in {" ", "\t", "\n", "\r", "\f"}

RECURSIVE TrimStart(_)
TrimStart(s) ==
    IF s # "" /\ IsSpace(Head(s)) THEN TrimStart(Tail(s)) ELSE s

RECURSIVE TrimEnd(_)
TrimEnd(s) ==
    IF s # "" /\ IsSpace(Char(s, Len(s))) THEN TrimEnd(SubSeq(s, 1, Len(s) - 1)) ELSE s

Trim(s) == TrimEnd(TrimStart(s))

\* String.prototype.includes
Includes(s, part) ==
    \E i \in 1..(Len(s) - Len(part) + 1) : SubSeq(s, i, i + Len(part) - 1) = part

\* String.prototype.endsWith
EndsWith(s, suffix) ==
    Len(s) >= Len(suffix) /\ SubSeq(s, Len(s) - Len(suffix) + 1, Len(s)) = suffix

\* String.prototype.split on a one-character separator: the pieces between
\* the separator's positions, in order
Split(s, sep) ==
    LET at == {i \in 1..Len(s) : Char(s, i) = sep}
        \* the k-th position of the separator; 0 and Len(s) + 1 fence the ends
        Cut(k) == IF k = 0 THEN 0
                  ELSE IF k > Cardinality(at) THEN Len(s) + 1
                  ELSE CHOOSE i \in at : Cardinality({j \in at : j < i}) = k - 1
    IN [k \in 1..(Cardinality(at) + 1) |-> SubSeq(s, Cut(k - 1) + 1, Cut(k) - 1)] \o <<>>

\* s.replace(/"/g, '')
RemoveQuotes(s) == ConvertRange("unquote", s, 1, Len(s))

\* s.replace(/\b\w/g, l => l.toUpperCase())
TitleCase(s) == ConvertRange("title", s, 1, Len(s))

(***************************************************************************)
(* Values                                                                  *)
(***************************************************************************)

Str(s) == [t |-> "str", s |-> s, n |-> 0]

\* a number, given in tenths
Num(n) == [t |-> "num", s |-> "", n |-> n]

NaN == [t |-> "nan", s |-> "", n |-> 0]

Undefined == [t |-> "undef", s |-> "", n |-> 0]

\* the number whole.tenth, as the model stores it
Fixed(whole, tenth) == whole * 10 + tenth

\* ToBoolean: '', 0, NaN and undefined are falsy
Truthy(v) == (v.t = "str" /\ v.s # "") \/ (v.t = "num" /\ v.n # 0)

\* a || 0
OrZero(v) == IF Truthy(v) THEN v ELSE Num(0)

DigitVal(c) == IndexOf(Digits, c) - 1

DigitChar(d) == Char(Digits, d + 1)

RECURSIVE NatToStr(_)
NatToStr(k) ==
    IF k < 10 THEN DigitChar(k) ELSE NatToStr(k \div 10) \o DigitChar(k % 10)

\* Number.prototype.toString of a number held in tenths
NumToStr(n) ==
    LET m == IF n < 0 THEN -n ELSE n
    IN (IF n < 0 THEN "-" ELSE "") \o NatToStr(m \div 10)
       \o (IF m % 10 = 0 THEN "" ELSE "." \o DigitChar(m % 10))

\* ToString
ToStr(v) ==
    CASE v.t = "str" -> v.s
      [] v.t = "num" -> NumToStr(v.n)
      [] v.t = "nan" -> "NaN"
      [] OTHER -> "undefined"

RECURSIVE LeadingDigits(_)
LeadingDigits(s) ==
    IF s # "" /\ IsDigit(Head(s)) THEN Head(s) \o LeadingDigits(Tail(s)) ELSE ""

RECURSIVE DigitsToNat(_, _)
DigitsToNat(s, acc) ==
    IF s = "" THEN acc ELSE DigitsToNat(Tail(s), acc * 10 + DigitVal(Head(s)))

\* parseFloat: leading white space, a sign, digits, a fraction; NaN when no
\* digit is found
ParseFloat(v) ==
    LET t == TrimStart(ToStr(v))
        signed == t # "" /\ Head(t) \in {"-", "+"}
        u == IF signed THEN Tail(t) ELSE t
        ip == LeadingDigits(u)
        rest == SubSeq(u, Len(ip) + 1, Len(u))
        fp == IF rest # "" /\ Head(rest) = "." THEN LeadingDigits(Tail(rest)) ELSE ""
        mag == Fixed(DigitsToNat(ip, 0), IF fp = "" THEN 0 ELSE DigitVal(Head(fp)))
    IN IF ip = "" /\ fp = "" THEN NaN
       ELSE Num(IF signed /\ Head(t) = "-" THEN -mag ELSE mag)

\* parseInt (radix 10): leading white space, a sign, digits; NaN when no
\* digit is found
ParseInt(v) ==
    LET t == TrimStart(ToStr(v))
        signed == t # "" /\ Head(t) \in {"-", "+"}
        u == IF signed THEN Tail(t) ELSE t
        ip == LeadingDigits(u)
        mag == Fixed(DigitsToNat(ip, 0), 0)
    IN IF ip = "" THEN NaN
       ELSE Num(IF signed /\ Head(t) = "-" THEN -mag ELSE mag)

\* Math.max(0, Math.min(100, d)) of a number
ClampPercent(v) ==
    LET hundred == Fixed(100, 0)
        low == IF v.n < hundred THEN v.n ELSE hundred
    IN Num(IF low > 0 THEN low ELSE 0)

(***************************************************************************)
(* Objects: sequences of [k, v] in insertion order                         *)
(***************************************************************************)

Has(obj, key) == \E i \in 1..Len(obj) : obj[i].k = key

\* obj[key] of an object without inherited properties in play
Get(obj, key) ==
    IF Has(obj, key) THEN obj[CHOOSE i \in 1..Len(obj) : obj[i].k = key].v ELSE Undefined

\* The object left by the assignments obj[w.k] = w.v made on {} in the order
\* of `writes`: a property stands where it was first written and holds what
\* was last written to it.
Assign(writes) ==
    LET done == writes \o <<>>
        first == {i \in 1..Len(done) : \A j \in 1..(i - 1) : done[j].k # done[i].k}
        Nth(n) == CHOOSE i \in first : Cardinality({j \in first : j < i}) = n - 1
        Last(key) == CHOOSE i \in 1..Len(done) :
                         done[i].k = key /\ \A j \in (i + 1)..Len(done) : done[j].k # key
    IN [n \in 1..Cardinality(first) |->
           [k |-> done[Nth(n)].k, v |-> done[Last(done[Nth(n)].k)].v]] \o <<>>

\* Object.keys
Keys(obj) == [i \in 1..Len(obj) |-> obj[i].k]

\* names every plain object inherits from Object.prototype: for these
\* obj[name] is a function (truthy) although the object has no such own key
ObjectPrototypeKeys ==
    {"constructor", "toString", "toLocaleString", "valueOf", "hasOwnProperty",
     "isPrototypeOf", "propertyIsEnumerable", "__proto__"}

(***************************************************************************)
(* COLUMN_MAPPING and the upload                                           *)
(***************************************************************************)

COLUMN_MAPPING ==
    << [name |-> "transaction_id", variants |-> <<"transaction_id", "transactionid", "txn_id", "transaction", "txn", "trans_id">>],
       [name |-> "date_of_sale", variants |-> <<"date_of_sale", "sale_date", "transaction_date", "purchase_date", "sale_datetime", "date">>],
       [name |-> "brand", variants |-> <<"brand", "product_brand", "company", "manufacturer", "product_label", "product_make">>],
       [name |-> "product_name", variants |-> <<"product_name", "item_name", "product", "item", "product_label", "item_description">>],
       [name |-> "category", variants |-> <<"category", "product_category", "product_type", "item_category", "category_name">>],
       [name |-> "sub_category", variants |-> <<"sub_category", "subcategory", "category_type", "item_subcategory">>],
       [name |-> "size", variants |-> <<"size", "product_size", "item_size", "garment_size", "shoe_size">>],
       [name |-> "color", variants |-> <<"color", "product_color", "item_color", "colour">>],
       [name |-> "price", variants |-> <<"price", "cost", "product_price", "item_price", "cost_price", "unit_price">>],
       [name |-> "discount_percent", variants |-> <<"discount_percent", "discount", "discount_rate", "discount_value">>],
       [name |-> "final_price", variants |-> <<"final_price", "price_after_discount", "sale_price", "final_cost", "net_price">>],
       [name |-> "quantity", variants |-> <<"quantity", "qty", "units", "item_count", "quantity_sold">>],
       [name |-> "payment_mode", variants |-> <<"payment_mode", "payment_method", "transaction_mode", "payment_type", "payment_method_type">>],
       [name |-> "store_location", variants |-> <<"store_location", "outlet", "store", "store_name", "location", "store_address">>],
       [name |-> "sales_channel", variants |-> <<"sales_channel", "channel", "selling_channel", "sale_channel", "channel_type">>],
       [name |-> "customer_id", variants |-> <<"customer_id", "user_id", "client_id", "customer_number", "account_id">>],
       [name |-> "customer_gender", variants |-> <<"customer_gender", "gender", "user_gender", "customer_sex">>],
       [name |-> "return_status", variants |-> <<"return_status", "is_returned", "return", "return_flag", "return_ind">>],
       [name |-> "return_reason", variants |-> <<"return_reason", "reason_for_return", "return_cause", "return_description", "reason">>],
       [name |-> "review_text", variants |-> <<"review_text", "customer_review", "feedback", "product_review", "review">>],
       [name |-> "co2_saved", variants |-> <<"co2_saved", "carbon_saved", "carbon_emission_saved", "co2_reduction">>],
       [name |-> "rating", variants |-> <<"rating", "product_rating", "customer_rating", "user_rating", "product_review_score">>],
       [name |-> "delivery_days", variants |-> <<"delivery_days", "days_to_deliver", "delivery_time", "shipping_days", "shipping_time">>] >>

\* line.split(',').map(v => v.trim().replace(/"/g, ''))
\* (appending <<>> changes nothing; it makes TLC hold the mapped array as a
\* tuple, where it would otherwise compute an element again at every read)
SplitCells(line) ==
    LET parts == Split(line, ",")
    IN [i \in 1..Len(parts) |-> RemoveQuotes(Trim(parts[i]))] \o <<>>

\* headers.forEach((header, index) => { row[header] = values[index] || '' })
RowFrom(headers, values) ==
    Assign([index \in 1..Len(headers) |->
               [k |-> headers[index],
                v |-> Str(IF index <= Len(values) THEN values[index] ELSE "")]])

\* the body of reader.onload: the rows read from a file
ParseFile(file) ==
    IF EndsWith(file.name, ".csv")
    THEN LET lines == Split(file.text, "\n")
             headers == SplitCells(lines[1])
             dataLines == SelectSeq(Tail(lines), LAMBDA line : Trim(line) # "")
         IN [i \in 1..Len(dataLines) |-> RowFrom(headers, SplitCells(dataLines[i]))]
    ELSE <<>>

\* the DataStats written beside a table; nullCounts is always {}
StatsOf(data) ==
    LET columns == IF Len(data) > 0 THEN Keys(data[1]) ELSE <<>>
    IN [shape |-> <<Len(data), Len(columns)>>, columns |-> columns]

(***************************************************************************)
(* cleanData                                                               *)
(***************************************************************************)

\* col.toLowerCase().trim()
NormaliseName(col) == Trim(ToLowerCase(col))

\* the (standardName, variant) pairs in the order the two nested loops of
\* lines 205-206 visit them, each variant passed through
\* toLowerCase().trim() as line 207 reads it
RECURSIVE PairsFrom(_)
PairsFrom(e) ==
    IF e > Len(COLUMN_MAPPING) THEN <<>>
    ELSE [i \in 1..Len(COLUMN_MAPPING[e].variants) |->
             [name |-> COLUMN_MAPPING[e].name,
              variant |-> NormaliseName(COLUMN_MAPPING[e].variants[i])]]
         \o PairsFrom(e + 1)

\* a faulty mapping that also lists the canonical name price as an alias of
\* final_price
MappingPairsWithRegression ==
    PairsFrom(1) \o << [name |-> "final_price", variant |-> "price"] >>

MappingPairs == PairsFrom(1)

\* JSON.parse(JSON.stringify(rawData)): a deep copy in which properties
\* whose value is undefined are gone
JsonCopy(data) ==
    [i \in 1..Len(data) |-> SelectSeq(data[i], LAMBDA p : p.v.t # "undef")]

\* foundColumns: original column name -> standard name
FoundColumns(cleaned) ==
    LET keys == IF Len(cleaned) > 0 THEN Keys(cleaned[1]) ELSE <<>>
        dataColumns == [i \in 1..Len(keys) |-> NormaliseName(keys[i])] \o <<>>
        Hit(variant) == {i \in 1..Len(keys) : dataColumns[i] = variant}
        \* the iterations whose dataColumns.includes(...) test passes
        included == SelectSeq(MappingPairs, LAMBDA pair : Hit(pair.variant) # {})
        \* Object.keys(...).find(...): the first column with that name
        OriginalName(pair) ==
            keys[CHOOSE i \in Hit(pair.variant) : \A j \in Hit(pair.variant) : i <= j]
        assigned == SelectSeq(included, LAMBDA pair : OriginalName(pair) # "")
    IN Assign([i \in 1..Len(assigned) |->
                  [k |-> OriginalName(assigned[i]), v |-> Str(assigned[i].name)]])

\* foundColumns[key], read for its truth value: an own entry, or a member
\* inherited from Object.prototype
FoundLookup(found, key) ==
    Has(found, key) \/ key \in ObjectPrototypeKeys

\* the row built by the renaming map callback: the renamed columns in the
\* order of foundColumns, then the columns foundColumns does not name
RenameRow(row, found) ==
    Assign([i \in 1..Len(found) |-> [k |-> found[i].v.s, v |-> Get(row, found[i].k)]]
           \o SelectSeq(row, LAMBDA prop : ~FoundLookup(found, prop.k)))

\* the logs the renaming map callback pushes for one row
RenameLogs(found) ==
    [i \in 1..Len(found) |->
        [message |-> "Renamed column '" \o found[i].k \o "' to '" \o found[i].v.s \o "'",
         type |-> "info"]]

TwoDigits(s) == Len(s) = 2 /\ IsDigit(Char(s, 1)) /\ IsDigit(Char(s, 2))

\* a calendar date YYYY-MM-DD that every engine reads as that UTC day
IsIsoDate(s) ==
    /\ Len(s) = 10
    /\ \A i \in 1..4 : IsDigit(Char(s, i))
    /\ Char(s, 5) = "-" /\ Char(s, 8) = "-"
    /\ TwoDigits(SubSeq(s, 6, 7)) /\ DigitsToNat(SubSeq(s, 6, 7), 0) \in 1..12
    /\ TwoDigits(SubSeq(s, 9, 10)) /\ DigitsToNat(SubSeq(s, 9, 10), 0) \in 1..28

\* new Date(v).toISOString().split('T')[0] inside try/catch: an ISO date, or
\* an ISO date followed by a UTC time "Thh:mm:ssZ", gives the date; a text
\* that is no date makes toISOString throw and the value is kept
DateOfSale(v) ==
    LET s == ToStr(v)
    IN IF IsIsoDate(s) THEN Str(s)
       ELSE IF Len(s) = 20 /\ IsIsoDate(SubSeq(s, 1, 10)) /\ Char(s, 11) = "T" /\ Char(s, 20) = "Z"
       THEN Str(SubSeq(s, 1, 10))
       ELSE v

\* a faulty test that takes only an absent cell for missing
IsMissingWhenAbsent(v) == v.t = "undef"

\* !v || v === ''
IsMissing(v) == ~Truthy(v) \/ v = Str("")

\* lines 282-285: the discount_percent conversion of a truthy cell
ConvertDiscount(v) == ClampPercent(OrZero(ParseFloat(v)))

\* value.toString().toUpperCase().trim()
UpperTrim(v) == Str(Trim(ToUpperCase(ToStr(v))))

\* value.toString().replace(/\b\w/g, l => l.toUpperCase()).trim()
TitleTrim(v) == Str(Trim(TitleCase(ToStr(v))))

\* What lines 246-305 leave in column `key` of a row that holds v there
\* (Undefined when the row has no such column). Each statement reads and
\* writes one column, so a column's final value depends on its own cell.
CleanCell(key, v) ==
    CASE key = "return_reason" -> IF IsMissing(v) THEN Str("No return reason") ELSE v
      [] key = "review_text" -> IF IsMissing(v) THEN Str("No review provided") ELSE v
      [] key = "rating" ->
             LET filled == IF IsMissing(v) THEN Num(0) ELSE v
             IN IF Truthy(filled) THEN OrZero(ParseFloat(filled)) ELSE filled
      [] key = "co2_saved" -> IF IsMissing(v) THEN Num(0) ELSE v
      [] key = "date_of_sale" -> IF Truthy(v) THEN DateOfSale(v) ELSE v
      [] key \in {"price", "final_price"} -> IF Truthy(v) THEN OrZero(ParseFloat(v)) ELSE v
      [] key = "quantity" -> IF Truthy(v) THEN OrZero(ParseInt(v)) ELSE v
      [] key = "discount_percent" -> IF Truthy(v) THEN ConvertDiscount(v) ELSE v
      [] key \in {"brand", "payment_mode"} -> IF Truthy(v) THEN UpperTrim(v) ELSE v
      [] key \in {"category", "sub_category", "store_location", "sales_channel"} ->
             IF Truthy(v) THEN TitleTrim(v) ELSE v
      [] OTHER -> v

\* the columns lines 246-258 add to a row that lacks them, in that order
DefaultedColumns == <<"return_reason", "review_text", "rating", "co2_saved">>

\* the row built by the cleaning map callback: every column of the row in
\* its place, then the defaulted columns the row did not have
CleanRow(row) ==
    LET added == SelectSeq(DefaultedColumns, LAMBDA key : ~Has(row, key))
    IN [i \in 1..Len(row) |-> [k |-> row[i].k, v |-> CleanCell(row[i].k, row[i].v)]]
       \o [i \in 1..Len(added) |-> [k |-> added[i], v |-> CleanCell(added[i], Undefined)]]

\* a faulty cleaning that filters out the rows whose quantity is no number
CleanRowsDroppingInvalid(data, found) ==
    LET renamed == [i \in 1..Len(data) |-> RenameRow(data[i], found)]
        valid == SelectSeq(renamed, LAMBDA row : ParseInt(Get(row, "quantity")).t = "num")
    IN [i \in 1..Len(valid) |-> CleanRow(valid[i])]

\* cleaned.map(...) twice: the renaming, then the cleaning, row by row
CleanRows(data, found) ==
    [i \in 1..Len(data) |-> CleanRow(RenameRow(data[i], found))]

\* the table cleanData hands to setCleanedData
CleanedTable(data) ==
    CleanRows(JsonCopy(data), FoundColumns(JsonCopy(data)))

\* the logs array at line 344
CleaningLogsOf(data) ==
    LET found == FoundColumns(JsonCopy(data))
    IN [i \in 1..(Len(data) * Len(found)) |-> RenameLogs(found)[((i - 1) % Len(found)) + 1]]
       \o << [message |-> "Column mapping completed", type |-> "success"],
             [message |-> "Data cleaning operations completed", type |-> "success"],
             [message |-> "Filled missing values with defaults", type |-> "info"],
             [message |-> "Converted numeric fields and standardized text", type |-> "info"],
             [message |-> "Data cleaning completed successfully. Processed "
                          \o NatToStr(Len(data)) \o " rows.", type |-> "success"] >>

(***************************************************************************)
(* executeQuery                                                            *)
(***************************************************************************)

\* Array.prototype.slice(0, count)
SliceFirst(data, count) ==
    SubSeq(data, 1, IF Len(data) < count THEN Len(data) ELSE count)

\* lines 362-370: the rows kept by the limit branches
LimitRows(lowered, data) ==
    IF Includes(lowered, "limit 1") THEN SliceFirst(data, 1)
    ELSE IF Includes(lowered, "limit 5") THEN SliceFirst(data, 5)
    ELSE IF Includes(lowered, "limit 3") THEN SliceFirst(data, 3)
    ELSE SliceFirst(data, 10)

\* line 374: cleanedData.reduce((sum, row) => sum + (parseInt(row.quantity) || 0), 0)
RECURSIVE SumQuantity(_, _)
SumQuantity(data, from) ==
    IF from > Len(data) THEN 0
    ELSE OrZero(ParseInt(Get(data[from], "quantity"))).n + SumQuantity(data, from + 1)

\* a faulty reduce that starts at the second row
TotalQuantitySkippingFirst(data) == SumQuantity(data, 2)

TotalQuantity(data) == SumQuantity(data, 1)

\* line 377: the literal 42.5
AverageValue == Num(Fixed(42, 5))

\* lines 373-380: the rows of the aggregate branches, or `rows` when none applies
AggregateRows(lowered, data, rows) ==
    IF Includes(lowered, "sum(quantity)")
    THEN << << [k |-> "total_sold", v |-> Num(TotalQuantity(data))] >> >>
    ELSE IF Includes(lowered, "avg(")
    THEN << << [k |-> "average_value", v |-> AverageValue] >> >>
    ELSE IF Includes(lowered, "count(*)")
    THEN << << [k |-> "count", v |-> Num(Fixed(Len(data), 0))] >> >>
    ELSE rows

\* lines 358-381: the result array computed for a query over cleanedData
QueryRows(query, data) ==
    LET lowered == ToLowerCase(query)
    IN IF Includes(lowered, "select")
       THEN AggregateRows(lowered, data, LimitRows(lowered, data))
       ELSE <<>>

\* the QueryResult handed to setQueryResult; executionTime, a clock reading,
\* is left out
QueryResultOf(query, data) ==
    LET result == QueryRows(query, data)
    IN [data |-> result,
        columns |-> IF Len(result) > 0 THEN Keys(result[1]) ELSE <<>>,
        query |-> query]

(***************************************************************************)
(* Inputs: the files a user may select                                     *)
(***************************************************************************)

FileCatalog ==
    << [name |-> "sales.csv",
        text |-> "transaction_id,category,price,discount,qty,return_status,delivery_days\n"
                 \o "T1,shoes,10,50,2,1,2\n"
                 \o "T2,apparel,30.5,150,abc,0,4\n"
                 \o "T3,shoes,20,-5,5,0,6\n"],
       [name |-> "returns.csv",
        text |-> "\"Txn_ID\",\"Category\",\"Discount\",\"Units\",\"Notes\"\n"
                 \o "R1,apparel,abc,3,late\n"
                 \o "R2,shoes,,4\n"
                 \o "R3,shoes,12.5,\n"],
       [name |-> "report.xlsx",
        text |-> "PK" ],
       [name |-> "stock.csv",
        text |-> "txn,price,cost,product_label,constructor,rating,reason,feedback,co2_saved\n"
                 \o "S1,5,3,Acme,x,4.5,damaged,fine,1.2\n"
                 \o "S2,9,4,Zed,y,,,,\n"],
       [name |-> "orders.csv",
        text |-> "Transaction,Rating,Return_Reason,Review,Quantity,Price\n"
                 \o "O1,abc,,good,2,x\n"
                 \o "O2,3,late,,,7.5\n"] >>

(***************************************************************************)
(* Inputs: the queries a user may run                                      *)
(***************************************************************************)

\* PREDEFINED_QUERIES, the entries the tab renders as buttons
\* (Object.keys(PREDEFINED_QUERIES).slice(0, 8))
PREDEFINED_QUERIES ==
    << [question |-> "What is the most sold product?",
        query |-> "SELECT product_name, SUM(quantity) AS total_sold FROM data GROUP BY product_name ORDER BY total_sold DESC LIMIT 1"],
       [question |-> "Which brand had the highest revenue?",
        query |-> "SELECT brand, SUM(final_price * quantity) AS revenue FROM data GROUP BY brand ORDER BY revenue DESC LIMIT 1"],
       [question |-> "Which category has the most returns?",
        query |-> "SELECT category, COUNT(*) AS return_count FROM data WHERE return_status = 1 GROUP BY category ORDER BY return_count DESC LIMIT 1"],
       [question |-> "What is the average delivery time?",
        query |-> "SELECT AVG(delivery_days) AS avg_delivery_time FROM data"],
       [question |-> "Which payment mode is most used?",
        query |-> "SELECT payment_mode, COUNT(*) AS count FROM data GROUP BY payment_mode ORDER BY count DESC LIMIT 1"],
       [question |-> "Which store location had the highest revenue?",
        query |-> "SELECT store_location, SUM(final_price * quantity) AS revenue FROM data GROUP BY store_location ORDER BY revenue DESC LIMIT 1"],
       [question |-> "What is the average discount given?",
        query |-> "SELECT AVG(discount_percent) AS avg_discount FROM data"],
       [question |-> "Which brand has the best average rating?",
        query |-> "SELECT brand, AVG(rating) AS avg_rating FROM data GROUP BY brand ORDER BY avg_rating DESC LIMIT 1"] >>

\* lines 437-447: the SQL generateSQLFromNLP picks for a prompt
GeneratedSQL(prompt) ==
    LET lowered == ToLowerCase(prompt)
    IN IF Includes(lowered, "most sold") \/ Includes(lowered, "best selling")
       THEN "SELECT product_name, SUM(quantity) AS total_sold FROM data GROUP BY product_name ORDER BY total_sold DESC LIMIT 5"
       ELSE IF Includes(lowered, "revenue") \/ Includes(lowered, "sales")
       THEN "SELECT brand, SUM(final_price * quantity) AS revenue FROM data GROUP BY brand ORDER BY revenue DESC LIMIT 5"
       ELSE IF Includes(lowered, "return")
       THEN "SELECT category, COUNT(*) AS return_count FROM data WHERE return_status = 1 GROUP BY category ORDER BY return_count DESC"
       ELSE IF Includes(lowered, "average") \/ Includes(lowered, "avg")
       THEN "SELECT AVG(price) AS average_price, AVG(rating) AS average_rating FROM data"
       ELSE "SELECT * FROM data LIMIT 10"

\* The texts typed into the Custom SQL box. Beside each text stands the
\* query it writes, which the properties read and the component never sees:
\*   select  "rows" (plain columns), "count", "sum" or "avg" of column col,
\*           "none" for a text outside the grammar
\*   alias   the AS name ("" when there is none)
\*   where   <<column, literal>> or <<>>;  groupBy  <<column>> or <<>>
\*   orderBy <<column, "ASC" | "DESC">> or <<>>;  limit  <<n>> or <<>>
QueryCatalog ==
    << [text |-> "SELECT COUNT(*) FROM data",
        select |-> "count", col |-> "*", alias |-> "",
        where |-> <<>>, groupBy |-> <<>>, orderBy |-> <<>>, limit |-> <<>>],
       [text |-> "SELECT COUNT(*) FROM data WHERE return_status = 1",
        select |-> "count", col |-> "*", alias |-> "",
        where |-> <<"return_status", "1">>, groupBy |-> <<>>, orderBy |-> <<>>, limit |-> <<>>],
       [text |-> "SELECT * FROM data LIMIT 10",
        select |-> "rows", col |-> "*", alias |-> "",
        where |-> <<>>, groupBy |-> <<>>, orderBy |-> <<>>, limit |-> <<10>>],
       [text |-> "SELECT * FROM data LIMIT 2",
        select |-> "rows", col |-> "*", alias |-> "",
        where |-> <<>>, groupBy |-> <<>>, orderBy |-> <<>>, limit |-> <<2>>],
       [text |-> "SELECT FRM data",
        select |-> "none", col |-> "", alias |-> "",
        where |-> <<>>, groupBy |-> <<>>, orderBy |-> <<>>, limit |-> <<>>],
       [text |-> "SELECT AVG(delivery_days) AS avg_delivery_time FROM data",
        select |-> "avg", col |-> "delivery_days", alias |-> "avg_delivery_time",
        where |-> <<>>, groupBy |-> <<>>, orderBy |-> <<>>, limit |-> <<>>],
       [text |-> "SELECT SUM(quantity) AS total_items_sold FROM data",
        select |-> "sum", col |-> "quantity", alias |-> "total_items_sold",
        where |-> <<>>, groupBy |-> <<>>, orderBy |-> <<>>, limit |-> <<>>],
       [text |-> "SELECT category, COUNT(*) FROM data GROUP BY category",
        select |-> "count", col |-> "*", alias |-> "",
        where |-> <<>>, groupBy |-> <<"category">>, orderBy |-> <<>>, limit |-> <<>>],
       [text |-> "SELECT * FROM data ORDER BY price DESC LIMIT 1",
        select |-> "rows", col |-> "*", alias |-> "",
        where |-> <<>>, groupBy |-> <<>>, orderBy |-> <<"price", "DESC">>, limit |-> <<1>>],
       [text |-> "show me everything",
        select |-> "none", col |-> "", alias |-> "",
        where |-> <<>>, groupBy |-> <<>>, orderBy |-> <<>>, limit |-> <<>>],
       [text |-> "select sum(quantity) from data",
        select |-> "sum", col |-> "quantity", alias |-> "",
        where |-> <<>>, groupBy |-> <<>>, orderBy |-> <<>>, limit |-> <<>>],
       [text |-> "SELECT * FROM data LIMIT 50",
        select |-> "rows", col |-> "*", alias |-> "",
        where |-> <<>>, groupBy |-> <<>>, orderBy |-> <<>>, limit |-> <<50>>],
       [text |-> "SELECT * FROM data",
        select |-> "rows", col |-> "*", alias |-> "",
        where |-> <<>>, groupBy |-> <<>>, orderBy |-> <<>>, limit |-> <<>>] >>

\* the prompts typed into the AI Prompt box
PromptCatalog ==
    << "What are my best selling products?", "What's the average customer rating?",
       "list the rows" >>

(***************************************************************************)
(* The component's state machine                                           *)
(***************************************************************************)

\* null, for the states typed `T | null`
Null == [null |-> TRUE]

NoFile == ""

Init ==
    /\ uploadedFile = NoFile
    /\ readers = {}
    /\ rawData = <<>>
    /\ cleanedData = <<>>
    /\ cleaningLogs = <<>>
    /\ beforeStats = Null
    /\ afterStats = Null
    /\ isProcessing = FALSE
    /\ preserveRows = FALSE
    /\ currentQuery = ""
    /\ queryResult = Null
    /\ isQuerying = FALSE
    /\ activeStep = "upload"
    /\ isGeneratingSQL = FALSE
    /\ nlpPending = {}

\* handleFileUpload up to reader.readAsText(file): the read is started and
\* completes later. Two reads of one file are one element of `readers`;
\* their callbacks write the same values.
SelectFile(file) ==
    /\ uploadedFile' = file.name
    /\ activeStep' = "upload"
    /\ readers' = readers \cup {file}
    /\ UNCHANGED <<rawData, cleanedData, cleaningLogs, beforeStats, afterStats,
                   isProcessing, preserveRows, currentQuery, queryResult, isQuerying,
                   isGeneratingSQL, nlpPending>>

\* reader.onload. Nothing in its try block throws on a string, so the catch
\* branch is not taken.
ReaderOnload(file) ==
    /\ file \in readers
    /\ readers' = readers \ {file}
    /\ rawData' = ParseFile(file)
    /\ beforeStats' = StatsOf(ParseFile(file))
    /\ cleaningLogs' = << [message |-> "File uploaded successfully: " \o file.name,
                           type |-> "success"] >>
    /\ UNCHANGED <<uploadedFile, cleanedData, afterStats, isProcessing, preserveRows,
                   currentQuery, queryResult, isQuerying, activeStep, isGeneratingSQL,
                   nlpPending>>

\* the checkbox "Preserve rows with invalid data"
SetPreserveRows(checked) ==
    /\ preserveRows # checked
    /\ preserveRows' = checked
    /\ UNCHANGED <<uploadedFile, readers, rawData, cleanedData, cleaningLogs, beforeStats,
                   afterStats, isProcessing, currentQuery, queryResult, isQuerying,
                   activeStep, isGeneratingSQL, nlpPending>>

\* a faulty cleanData that appends to the log on display
CleanDataAppendingLogs ==
    IF Len(rawData) = 0
    THEN UNCHANGED vars
    ELSE /\ isProcessing' = FALSE
         /\ activeStep' = "clean"
         /\ cleanedData' = CleanedTable(rawData)
         /\ afterStats' = StatsOf(cleanedData')
         /\ cleaningLogs' = cleaningLogs \o CleaningLogsOf(rawData)
         /\ UNCHANGED <<uploadedFile, readers, rawData, beforeStats, preserveRows,
                        currentQuery, queryResult, isQuerying, isGeneratingSQL, nlpPending>>

\* a faulty cleanData without the early return on an empty raw table
CleanDataOfAnyTable ==
    /\ isProcessing' = FALSE
    /\ activeStep' = "clean"
    /\ cleanedData' = (IF Len(rawData) = 0 THEN <<>> ELSE CleanedTable(rawData))
    /\ afterStats' = StatsOf(cleanedData')
    /\ cleaningLogs' = (IF Len(rawData) = 0 THEN <<>> ELSE CleaningLogsOf(rawData))
    /\ UNCHANGED <<uploadedFile, readers, rawData, beforeStats, preserveRows,
                   currentQuery, queryResult, isQuerying, isGeneratingSQL, nlpPending>>

\* cleanData, start to end: it is synchronous, so isProcessing is false again
\* when it returns. Nothing in its try block throws (the Date conversion has
\* its own try), so the catch branch is not taken.
CleanData ==
    IF Len(rawData) = 0
    THEN UNCHANGED vars
    ELSE /\ isProcessing' = FALSE
         /\ activeStep' = "clean"
         /\ cleanedData' = CleanedTable(rawData)
         /\ afterStats' = StatsOf(cleanedData')
         /\ cleaningLogs' = CleaningLogsOf(rawData)
         /\ UNCHANGED <<uploadedFile, readers, rawData, beforeStats, preserveRows,
                        currentQuery, queryResult, isQuerying, isGeneratingSQL, nlpPending>>

\* executeQuery(query) as a closure over the table `data`: what it writes
ExecuteQuery(query, data) ==
    IF Len(data) = 0
    THEN UNCHANGED <<queryResult, isQuerying, activeStep>>
    ELSE /\ isQuerying' = FALSE
         /\ activeStep' = "query"
         /\ queryResult' = QueryResultOf(query, data)

\* The query interface is rendered only when cleanedData is not empty.
QueryInterfaceShown == Len(cleanedData) > 0

\* the Custom SQL textarea's onChange, one edit for the whole text
SetCurrentQuery(text) ==
    /\ QueryInterfaceShown
    /\ currentQuery' = text
    /\ UNCHANGED <<uploadedFile, readers, rawData, cleanedData, cleaningLogs, beforeStats,
                   afterStats, isProcessing, preserveRows, queryResult, isQuerying,
                   activeStep, isGeneratingSQL, nlpPending>>

\* a faulty executeQuery that cuts the table itself (splice for slice)
RunQueryInPlace ==
    /\ QueryInterfaceShown
    /\ Trim(currentQuery) # ""
    /\ ~isQuerying
    /\ ExecuteQuery(currentQuery, cleanedData)
    /\ cleanedData' = LimitRows(ToLowerCase(currentQuery), cleanedData)
    /\ UNCHANGED <<uploadedFile, readers, rawData, cleaningLogs, beforeStats,
                   afterStats, isProcessing, preserveRows, currentQuery, isGeneratingSQL,
                   nlpPending>>

\* the Run Query button: executeQuery(currentQuery)
RunQuery ==
    /\ QueryInterfaceShown
    /\ Trim(currentQuery) # ""
    /\ ~isQuerying
    /\ ExecuteQuery(currentQuery, cleanedData)
    /\ UNCHANGED <<uploadedFile, readers, rawData, cleanedData, cleaningLogs, beforeStats,
                   afterStats, isProcessing, preserveRows, currentQuery, isGeneratingSQL,
                   nlpPending>>

\* handlePredefinedQuery(question); the chat messages it adds are not modelled
HandlePredefinedQuery(entry) ==
    /\ QueryInterfaceShown
    /\ currentQuery' = entry.query
    /\ ExecuteQuery(entry.query, cleanedData)
    /\ UNCHANGED <<uploadedFile, readers, rawData, cleanedData, cleaningLogs, beforeStats,
                   afterStats, isProcessing, preserveRows, isGeneratingSQL, nlpPending>>

\* handlePromptSubmit and generateSQLFromNLP up to its await: the call keeps
\* the executeQuery of the render it was made in, and with it that render's
\* cleanedData
SubmitPrompt(prompt) ==
    /\ QueryInterfaceShown
    /\ Trim(prompt) # ""
    /\ ~isGeneratingSQL
    /\ isGeneratingSQL' = TRUE
    /\ nlpPending' = nlpPending \cup {[prompt |-> prompt, cleanedData |-> cleanedData]}
    /\ UNCHANGED <<uploadedFile, readers, rawData, cleanedData, cleaningLogs, beforeStats,
                   afterStats, isProcessing, preserveRows, currentQuery, queryResult,
                   isQuerying, activeStep>>

\* generateSQLFromNLP after its 1500 ms timer
NlpTimer(call) ==
    /\ call \in nlpPending
    /\ nlpPending' = nlpPending \ {call}
    /\ currentQuery' = GeneratedSQL(call.prompt)
    /\ ExecuteQuery(GeneratedSQL(call.prompt), call.cleanedData)
    /\ isGeneratingSQL' = FALSE
    /\ UNCHANGED <<uploadedFile, readers, rawData, cleanedData, cleaningLogs, beforeStats,
                   afterStats, isProcessing, preserveRows>>

\* how many entries of the file catalog the cleaning specification draws from
NumFiles == 4

\* how many entries of the query catalog the query specification draws from
NumQueries == 12

\* how many typed queries, predefined questions and prompts the
\* specification of the whole tab draws from
NumSessionInputs == 1

\* the first `count` entries of a catalog
Prefix(catalog, count) ==
    {catalog[i] : i \in 1..(IF count < Len(catalog) THEN count ELSE Len(catalog))}

Files == Prefix(FileCatalog, NumFiles)

Queries == Prefix(QueryCatalog, NumQueries)

\* the files whose cleaned tables the queries are run on
QueryFiles == Prefix(FileCatalog, 2)

SessionQueries == Prefix(QueryCatalog, NumSessionInputs)

Predefined == Prefix(PREDEFINED_QUERIES, NumSessionInputs)

Prompts == Prefix(PromptCatalog, NumSessionInputs)

\* the files of a whole session: a CSV file, and a file that is not CSV and
\* is read as an empty table
SessionFiles == {FileCatalog[1], FileCatalog[3]}

\* every handler of the tab
Next ==
    \/ \E file \in SessionFiles : SelectFile(file)
    \/ \E file \in SessionFiles : ReaderOnload(file)
    \/ \E checked \in BOOLEAN : SetPreserveRows(checked)
    \/ CleanData
    \/ \E q \in SessionQueries : SetCurrentQuery(q.text)
    \/ RunQuery
    \/ \E entry \in Predefined : HandlePredefinedQuery(entry)
    \/ \E prompt \in Prompts : SubmitPrompt(prompt)
    \/ \E call \in nlpPending : NlpTimer(call)

Spec == Init /\ [][Next]_vars

\* the upload and cleaning steps alone, over every file
NextClean ==
    \/ \E file \in Files : SelectFile(file)
    \/ \E file \in Files : ReaderOnload(file)
    \/ \E checked \in BOOLEAN : SetPreserveRows(checked)
    \/ CleanData

SpecClean == Init /\ [][NextClean]_vars

\* a file uploaded and cleaned, then queries typed into the Custom SQL box
\* and run
NextQuery ==
    \/ \E file \in QueryFiles : SelectFile(file)
    \/ \E file \in QueryFiles : ReaderOnload(file)
    \/ CleanData
    \/ \E q \in Queries : SetCurrentQuery(q.text)
    \/ RunQuery

SpecQuery == Init /\ [][NextQuery]_vars

\* how many entries of the prompt catalog the prompt specification draws from
NumPrompts == 3

NlpPrompts == Prefix(PromptCatalog, NumPrompts)

\* files uploaded and cleaned while prompts typed into the AI Prompt box wait
\* for their timers
NextNlp ==
    \/ \E file \in QueryFiles : SelectFile(file)
    \/ \E file \in QueryFiles : ReaderOnload(file)
    \/ CleanData
    \/ \E prompt \in NlpPrompts : SubmitPrompt(prompt)
    \/ \E call \in nlpPending : NlpTimer(call)

SpecNlp == Init /\ [][NextNlp]_vars

(***************************************************************************)
(* What the specification says of a query, read off the written query      *)
(***************************************************************************)

\* a step in which Run Query executes the catalog query q
Runs(q) == currentQuery = q.text /\ RunQuery

\* the numeric coercion of a cell: its number, in tenths, or "none"
NumberOf(row, col) ==
    LET v == ParseFloat(Get(row, col))
    IN IF Has(row, col) /\ v.t = "num" THEN <<v.n>> ELSE <<>>

\* a cell as a number, a non-numeric or absent cell counting as 0
NumberOrZero(row, col) ==
    IF NumberOf(row, col) = <<>> THEN 0 ELSE NumberOf(row, col)[1]

RECURSIVE SumFrom(_, _, _)
SumFrom(data, col, from) ==
    IF from > Len(data) THEN 0
    ELSE NumberOrZero(data[from], col) + SumFrom(data, col, from + 1)

\* the arithmetic sum of a column
ColumnSum(data, col) == SumFrom(data, col, 1)

\* the rows that satisfy WHERE column = literal (all rows when there is no
\* WHERE clause)
Filtered(data, where) ==
    SelectSeq(data, LAMBDA row :
        where = <<>> \/ (Has(row, where[1]) /\ ToStr(Get(row, where[1])) = where[2]))

\* the first N rows (all rows when there is no LIMIT clause)
Limited(data, limit) ==
    IF limit = <<>> \/ Len(data) <= limit[1] THEN data ELSE SubSeq(data, 1, limit[1])

\* the rows at which a value of the column appears for the first time, in
\* table order
FirstSeen(data, col) ==
    LET first == {i \in 1..Len(data) :
                     \A j \in 1..(i - 1) : Get(data[j], col) # Get(data[i], col)}
    IN [n \in 1..Cardinality(first) |->
           CHOOSE i \in first : Cardinality({j \in first : j < i}) = n - 1]

\* how many rows hold the value that row i holds in the column
GroupSize(data, col, i) ==
    Cardinality({j \in 1..Len(data) : Get(data[j], col) = Get(data[i], col)})

\* a row of the renamed table fails a numeric coercion: a numeric column
\* holds a text that is no number
FailsCoercion(row) ==
    \E col \in {"price", "final_price", "quantity", "rating", "discount_percent"} :
        Has(row, col) /\ Truthy(Get(row, col)) /\ ParseFloat(Get(row, col)).t # "num"

(***************************************************************************)
(* Properties                                                              *)
(***************************************************************************)

\* C1: a SELECT COUNT(*) FROM data [WHERE p] run returns one row holding the
\* number of rows that satisfy p, and the table length when there is no WHERE.
CountEqualsMatchingRows ==
    [][\A q \in Queries :
          (q.select = "count" /\ q.groupBy = <<>> /\ Runs(q))
          => /\ Len(queryResult'.data) = 1
             /\ Len(queryResult'.data[1]) = 1
             /\ queryResult'.data[1][1].v
                    = Num(Fixed(Len(Filtered(cleanedData, q.where)), 0))]_vars

\* C2: a non-aggregate SELECT without ORDER BY returns the first min(N, R)
\* rows of the R-row table when it ends with LIMIT N, and all R rows when it
\* has no LIMIT.
LimitKeepsFirstRows ==
    [][\A q \in Queries :
          (q.select = "rows" /\ q.orderBy = <<>> /\ Runs(q))
          => queryResult'.data = Limited(cleanedData, q.limit)]_vars

\* C3: a text outside the grammar is not executed: running it leaves no
\* result rows for it, and leaves the cleaned table as it was.
MalformedQueryRejected ==
    [][\A q \in Queries :
          (q.select = "none" /\ Runs(q))
          => /\ queryResult' = queryResult \/ Len(queryResult'.data) = 0
             /\ cleanedData' = cleanedData]_vars

\* C4: SELECT AVG(c) AS a FROM data returns one row with the single column a,
\* holding the mean of the numeric values of column c.
AvgIsArithmeticMean ==
    [][\A q \in Queries :
          (/\ q.select = "avg" /\ q.groupBy = <<>> /\ q.where = <<>>
           /\ \E i \in 1..Len(cleanedData) : NumberOf(cleanedData[i], q.col) # <<>>
           /\ Runs(q))
          => LET numeric == SelectSeq(cleanedData,
                                      LAMBDA row : NumberOf(row, q.col) # <<>>)
             IN /\ Len(queryResult'.data) = 1
                /\ Keys(queryResult'.data[1]) = <<q.alias>>
                /\ queryResult'.data[1][1].v.t = "num"
                /\ queryResult'.data[1][1].v.n * Len(numeric)
                       = ColumnSum(numeric, q.col)]_vars

\* C5: SELECT SUM(quantity) ... FROM data without WHERE and GROUP BY returns
\* one row whose value is the sum of the quantity cells of all cleaned rows,
\* a non-numeric or absent quantity counting as 0.
SumQuantityIsArithmeticSum ==
    [][\A q \in Queries :
          (/\ q.select = "sum" /\ q.col = "quantity"
           /\ q.where = <<>> /\ q.groupBy = <<>>
           /\ Runs(q))
          => /\ Len(queryResult'.data) = 1
             /\ Len(queryResult'.data[1]) = 1
             /\ queryResult'.data[1][1].v = Num(ColumnSum(cleanedData, "quantity"))]_vars

\* C5, reached: the sum query has been run on the cleaned sales table, whose
\* second row had the quantity "abc" and counts as 0 in the total of 7
SumQuantityRun ==
    /\ queryResult # Null
    /\ queryResult.query = "SELECT SUM(quantity) AS total_items_sold FROM data"
    /\ queryResult.data = << << [k |-> "total_sold", v |-> Num(Fixed(7, 0))] >> >>
    /\ Len(rawData) = 3 /\ Get(rawData[2], "qty") = Str("abc")
    /\ Len(cleanedData) = 3 /\ Get(cleanedData[2], "quantity") = Num(0)

\* C6: SELECT category, COUNT(*) FROM data GROUP BY category returns one row
\* per distinct category, in the order the categories first appear, each with
\* the number of rows of its category (so the counts sum to the row count).
GroupByCountsEachCategory ==
    [][\A q \in Queries :
          (q.select = "count" /\ q.groupBy # <<>> /\ q.where = <<>> /\ Runs(q))
          => LET col == q.groupBy[1]
                 first == FirstSeen(cleanedData, col)
             IN /\ Len(queryResult'.data) = Len(first)
                /\ \A n \in 1..Len(first) :
                      /\ Get(queryResult'.data[n], col) = Get(cleanedData[first[n]], col)
                      /\ \E c \in 1..Len(queryResult'.data[n]) :
                            queryResult'.data[n][c].v
                                = Num(Fixed(GroupSize(cleanedData, col, first[n]), 0))]_vars

\* C7: ORDER BY col DESC LIMIT 1 over a table that has the column returns the
\* one row with the greatest value of col.
OrderByDescLimitOneIsGreatest ==
    [][\A q \in Queries :
          (/\ q.select = "rows" /\ q.orderBy # <<>> /\ q.limit = <<1>>
           /\ q.orderBy[2] = "DESC"
           /\ \A i \in 1..Len(cleanedData) : NumberOf(cleanedData[i], q.orderBy[1]) # <<>>
           /\ Runs(q))
          => /\ Len(queryResult'.data) = 1
             /\ \A i \in 1..Len(cleanedData) :
                   NumberOrZero(cleanedData[i], q.orderBy[1])
                       <= NumberOrZero(queryResult'.data[1], q.orderBy[1])]_vars

\* C8: in every cleaned row that has a discount_percent cell, the cell is a
\* number in [0, 100], whatever the raw cell was.
DiscountPercentInRange ==
    \A i \in 1..Len(cleanedData) :
        Has(cleanedData[i], "discount_percent")
        => /\ Get(cleanedData[i], "discount_percent").t = "num"
           /\ Get(cleanedData[i], "discount_percent").n \in 0..Fixed(100, 0)

\* C9: with preserveRows true, cleanData of a non-empty raw table leaves a
\* cleaned table of the same length whose row i carries the transaction id of
\* raw row i (the first column of every file read here).
CleaningKeepsRowsInPlace ==
    [][(preserveRows /\ Len(rawData) > 0 /\ CleanData)
       => /\ Len(cleanedData') = Len(rawData)
          /\ \A i \in 1..Len(rawData) :
                Get(cleanedData'[i], "transaction_id") = rawData[i][1].v]_vars

\* C9, reached: with preserveRows true the sales table, whose second row
\* fails the quantity coercion, has been cleaned row for row
CleanedInPlace ==
    /\ preserveRows
    /\ activeStep = "clean"
    /\ Len(rawData) = 3 /\ Len(cleanedData) = 3
    /\ Get(rawData[2], "qty") = Str("abc")
    /\ \A i \in 1..3 : Get(cleanedData[i], "transaction_id") = rawData[i][1].v
    /\ Get(cleanedData[2], "quantity") = Num(0)

\* C10: cleanData keeps every row when preserveRows is true, and drops the
\* rows that fail a numeric coercion when it is false.
PreserveRowsControlsRetention ==
    [][(Len(rawData) > 0 /\ CleanData)
       => LET found == FoundColumns(rawData)
              kept == SelectSeq(rawData, LAMBDA row :
                          preserveRows \/ ~FailsCoercion(RenameRow(row, found)))
          IN Len(cleanedData') = Len(kept)]_vars

(***************************************************************************)
(* What the specification says of a cleaning run                           *)
(***************************************************************************)

\* a step in which cleanData runs on a non-empty raw table (the conjuncts
\* before CleanData follow from it and are cheaper to decide)
Cleans ==
    /\ Len(rawData) > 0
    /\ readers' = readers /\ preserveRows' = preserveRows
    /\ CleanData

\* the canonical names under which COLUMN_MAPPING lists a column name
\* (lowercased and trimmed), in the order of their declaration
CanonicalNamesOf(col) ==
    LET name == NormaliseName(col)
        listed == SelectSeq(MappingPairs, LAMBDA pair : pair.variant = name)
    IN [n \in 1..Len(listed) |-> listed[n].name]

\* the positions of the columns of the raw table that some alias set names
RenamedColumns(data) ==
    {c \in 1..Len(data[1]) : CanonicalNamesOf(data[1][c].k) # <<>>}

\* the "Renamed column" actions of a log
RenameActions(logs) ==
    SelectSeq(logs, LAMBDA log :
        log.type = "info" /\ Len(log.message) >= 14
                          /\ SubSeq(log.message, 1, 14) = "Renamed column")

\* C11: a column whose name is an alias of two canonical names is renamed to
\* the one declared first, and the run logs a warning.
AmbiguousAliasEarliestWins ==
    [][Cleans
       => \A c \in RenamedColumns(rawData) :
             LET names == CanonicalNamesOf(rawData[1][c].k)
             IN Len(names) >= 2
                => /\ \A i \in 1..Len(cleanedData') : Has(cleanedData'[i], names[1])
                   /\ \E n \in 1..Len(cleaningLogs') : cleaningLogs'[n].type = "warning"]_vars

\* C12: the log of a cleaning run holds one "Renamed column" action per
\* renamed column, whatever the number of rows.
OneRenameActionPerColumn ==
    [][Cleans
       => Len(RenameActions(cleaningLogs')) = Cardinality(RenamedColumns(rawData))]_vars

\* C13: a column that no alias set names is in every cleaned row, under its
\* own name and with its own value.
UnmappedColumnsPassThrough ==
    [][Cleans
       => \A c \in (1..Len(rawData[1])) \ RenamedColumns(rawData) :
             \A i \in 1..Len(rawData) :
                /\ Has(cleanedData'[i], rawData[i][c].k)
                /\ Get(cleanedData'[i], rawData[i][c].k) = rawData[i][c].v]_vars

\* the default of a defaulted column
DefaultOf(name) ==
    CASE name = "return_reason" -> Str("No return reason")
      [] name = "review_text" -> Str("No review provided")
      [] OTHER -> Num(0)

\* the positions of the columns of the raw table that are aliases of the
\* canonical name
InputColumns(data, name) ==
    {c \in 1..Len(data[1]) :
        \E n \in 1..Len(CanonicalNamesOf(data[1][c].k)) :
            CanonicalNamesOf(data[1][c].k)[n] = name}

NumericColumnsHoldNumbers ==
    \A i \in 1..Len(cleanedData) :
        /\ \A col \in {"price", "final_price", "rating", "quantity"} :
              Has(cleanedData[i], col) => Get(cleanedData[i], col).t = "num"
        /\ Has(cleanedData[i], "quantity")
              => Get(cleanedData[i], "quantity").n % Fixed(1, 0) = 0

\* C16: whenever a file has been read and the raw table is empty, a call of
\* cleanData ends with an empty cleaned table and a log of exactly one
\* action, an error.
EmptyTableCleanReportsError ==
    (beforeStats # Null /\ Len(rawData) = 0)
    => ENABLED (/\ CleanData
                /\ cleanedData' = <<>>
                /\ Len(cleaningLogs') = 1
                /\ cleaningLogs'[1].type = "error")

\* the canonical column names
CanonicalNames == {COLUMN_MAPPING[e].name : e \in 1..Len(COLUMN_MAPPING)}

\* the column names of a row
ColumnSet(row) == {row[c].k : c \in 1..Len(row)}

ExecuteQueryOnlyWritesResult ==
    [][queryResult' # queryResult
       => /\ cleanedData' = cleanedData
          /\ UNCHANGED <<uploadedFile, readers, rawData, cleaningLogs, beforeStats,
                         afterStats, isProcessing, preserveRows, currentQuery,
                         isGeneratingSQL, nlpPending>>]_vars

\* C18, reached: a query that returns one row has been run on the cleaned
\* sales table, which still has its three rows
QueryRunTableKept ==
    /\ activeStep = "query"
    /\ queryResult # Null
    /\ queryResult.query = "SELECT * FROM data ORDER BY price DESC LIMIT 1"
    /\ Len(queryResult.data) = 1
    /\ Len(cleanedData) = 3
    /\ Get(cleanedData[3], "transaction_id") = Str("T3")

\* C19: the alias sets of COLUMN_MAPPING are pairwise disjoint, so the name of
\* a column of an uploaded table, lowercased and trimmed, is listed under one
\* canonical name at most.
AliasSetsDisjoint ==
    \A c \in 1..(IF Len(rawData) > 0 THEN Len(rawData[1]) ELSE 0) :
        LET names == CanonicalNamesOf(rawData[1][c].k)
        IN \A m, n \in 1..Len(names) : names[m] = names[n]

\* a "Renamed column" action that names the column
RenameActionOf(log, col) ==
    LET start == "Renamed column '" \o col \o "' to '"
    IN log.type = "info" /\ Len(log.message) > Len(start)
                         /\ SubSeq(log.message, 1, Len(start)) = start

\* C20: the log a cleaning run over n >= 1 rows leaves on display holds the
\* actions of that run alone, in the order of their appending: rename actions
\* of columns of this raw table, then the four step actions, then the success
\* summary that reports n rows.
LogHoldsOnlyThisRun ==
    [][Cleans
       => LET renames == RenameActions(cleaningLogs')
              renamed == {rawData[1][c].k : c \in RenamedColumns(rawData)}
          IN /\ SubSeq(cleaningLogs', 1, Len(renames)) = renames
             /\ \A log \in {renames[n] : n \in 1..Len(renames)} :
                   \E col \in renamed : RenameActionOf(log, col)
             /\ SubSeq(cleaningLogs', Len(renames) + 1, Len(cleaningLogs'))
                    = << [message |-> "Column mapping completed", type |-> "success"],
                         [message |-> "Data cleaning operations completed",
                          type |-> "success"],
                         [message |-> "Filled missing values with defaults",
                          type |-> "info"],
                         [message |-> "Converted numeric fields and standardized text",
                          type |-> "info"],
                         [message |-> "Data cleaning completed successfully. Processed "
                                      \o NatToStr(Len(rawData)) \o " rows.",
                          type |-> "success"] >>]_vars

\* C20, reached: the sales table has been cleaned; the log starts with a
\* rename action of this run and ends with the summary of 3 rows
LogOfCleaningRun ==
    /\ activeStep = "clean"
    /\ Len(rawData) = 3 /\ Len(cleanedData) = 3
    /\ Len(cleaningLogs) > 5
    /\ cleaningLogs[1]
           = [message |-> "Renamed column 'transaction_id' to 'transaction_id'",
              type |-> "info"]
    /\ cleaningLogs[Len(cleaningLogs)]
           = [message |-> "Data cleaning completed successfully. Processed 3 rows.",
              type |-> "success"]

(***************************************************************************)
(* What the specification says of a session of uploads, cleanings and      *)
(* queries                                                                 *)
(***************************************************************************)

\* C21: once every started read has completed, a non-empty cleanedData is
\* the cleaning of the current rawData, and afterStats its statistics: the
\* cleaned table of a file uploaded before is no longer there to be queried.
CleanedDataIsOfCurrentUpload ==
    (readers = {} /\ Len(cleanedData) > 0)
    => /\ cleanedData = CleanedTable(rawData)
       /\ afterStats = StatsOf(CleanedTable(rawData))

\* C22: when its 1500 ms timer fires, generateSQLFromNLP executes the
\* generated query against the cleaned table of that moment, whatever was
\* cleaned or uploaded since the prompt was submitted.
NlpQueryRunsOnCurrentTable ==
    [][\A call \in nlpPending :
          NlpTimer(call) => ExecuteQuery(GeneratedSQL(call.prompt), cleanedData)]_vars

\* C23: once the reads of the selected files have all completed, in whatever
\* order, rawData and beforeStats hold the parsed rows of the file that
\* uploadedFile names, the file selected last.
RawDataIsOfLastSelectedFile ==
    (readers = {} /\ uploadedFile # NoFile)
    => \E file \in Files :
          /\ file.name = uploadedFile
          /\ rawData = ParseFile(file)
          /\ beforeStats = StatsOf(ParseFile(file))

\* the defaulted columns that no input column of the raw table is an alias
\* of: cleaning adds them to every row
AddedColumns(data) ==
    {name \in {"return_reason", "review_text", "rating", "co2_saved"} :
        InputColumns(data, name) = {}}

\* the cell holds the input value, as written or as the number it writes
HoldsInput(cell, input) == cell.v = input \/ cell.v = ParseFloat(input)

\* C24: cleanData loses no input column. Each cleaned row has one column per
\* input column beside the defaulted columns the table lacked, and two input
\* columns that are aliases of one canonical name are both in the cleaned
\* row, in two columns with their two values.
NoInputColumnLost ==
    [][Cleans
       => LET added == Cardinality(AddedColumns(rawData))
          IN \A i \in 1..Len(rawData) :
                /\ Len(cleanedData'[i]) - added = Len(rawData[i])
                /\ \A name \in CanonicalNames :
                      \A c, d \in InputColumns(rawData, name) :
                         c # d => \E m, n \in 1..Len(cleanedData'[i]) :
                                     /\ m # n
                                     /\ HoldsInput(cleanedData'[i][m], rawData[i][c].v)
                                     /\ HoldsInput(cleanedData'[i][n], rawData[i][d].v)]_vars

\* C25: queryResult is non-null only while cleanedData is non-empty. While
\* the cleaned table is empty no query has changed queryResult, isQuerying
\* or activeStep, and no step makes a non-empty cleanedData empty again.
QueryResultNeedsCleanedData ==
    /\ [](/\ queryResult # Null => Len(cleanedData) > 0
          /\ Len(cleanedData) = 0
             => queryResult = Null /\ ~isQuerying /\ activeStep # "query")
    /\ [][Len(cleanedData) > 0 => Len(cleanedData') > 0]_vars

\* C25, reached: after the sales table was cleaned a file that is not CSV
\* has been read as an empty table; the cleaned table is still there and a
\* query has run on it
QueryResultOutlivesEmptyUpload ==
    /\ uploadedFile = "report.xlsx"
    /\ readers = {}
    /\ Len(rawData) = 0
    /\ beforeStats = StatsOf(<<>>)
    /\ Len(cleanedData) = 3
    /\ queryResult # Null
    /\ activeStep = "query"

====
